---- MODULE Spec2Model ----
(***************************************************************************)
(* A model of the ai-report-analyzer upload pipeline:                      *)
(*   app/ingestion/loader.py      load_csv_from_bytes, validate_dataframe  *)
(*   app/processing/aggregator.py aggregate_data, prepare_context_for_ai   *)
(*   app/main.py                  upload_report, get_reports               *)
(*                                                                         *)
(* Text is modelled as sequences of tokens or lines, never as opaque       *)
(* names: a CSV body is its header and its rows of cells, the response of  *)
(* the insight service is its sequence of JSON lexemes (json.loads is a    *)
(* recursive-descent parser over them), and the AI context is its          *)
(* sequence of lines.                                                      *)
(***************************************************************************)
EXTENDS Integers, Sequences, FiniteSets, TLC

(***************************************************************************)
(* Bounds of the model.                                                    *)
(***************************************************************************)
\* rows of the CSV bodies enumerated over the full cell alphabet
MaxGridRows == 2
\* rows of the long single-column CSV bodies (more than the 5-row sample)
MaxLongRows == 6
\* members of the JSON objects and elements of the JSON lists enumerated
MaxMembers == 2
\* upload requests handled in one behaviour of the service
MaxUploads == 2
\* TLC's integers are 32 bits wide, so an int64 cell hi * 2^60 + lo with
\* 0 <= lo < 2^60 is written hi * P60 + lo: P60 stands for 2^60.  Sums,
\* order and the wrap at 2^63 are the same in both notations as long as the
\* low parts of a column add up to less than P60.
P60 == 1000

Min2(a, b) == IF a <= b THEN a ELSE b

Range(s) == {s[i] : i \in 1..Len(s)}

RECURSIVE SumSeq(_)
SumSeq(s) == IF s = <<>> THEN 0 ELSE Head(s) + SumSeq(Tail(s))

SeqsUpTo(S, n) == UNION {[1..k -> S] : k \in 0..n}

(***************************************************************************)
(* CSV bodies (the bytes of the uploaded file).                            *)
(*   [kind |-> "undecodable"]         bytes that are not text              *)
(*   [kind |-> "empty"]               no line at all                       *)
(*   [kind |-> "csv", header, rows]   a header line and the data lines     *)
(* A cell is an integer literal, a text, or an empty field.                *)
(***************************************************************************)
IntCell(v) == [t |-> "int", v |-> v]
TextCell(s) == [t |-> "text", s |-> s]
NACell == [t |-> "na"]

Int64Min == -8 * P60

\* 2^62: two of them add up to 2^63, one more than the largest int64
Huge == 4 * P60

Cells == {IntCell(1), IntCell(3), IntCell(Huge), NACell, TextCell("x")}
LongCells == {IntCell(1), IntCell(3), NACell}

ColumnNames == <<"a", "b">>

Csv(header, rows) == [kind |-> "csv", header |-> header, rows |-> rows]

\* the body "a,b\n1,2\n3,4\n5,x\n"
ExampleCsv ==
  Csv(<<"a", "b">>,
      << <<IntCell(1), IntCell(2)>>,
         <<IntCell(3), IntCell(4)>>,
         <<IntCell(5), TextCell("x")>> >>)

GridCsvs ==
  {Csv(SubSeq(ColumnNames, 1, c), rows) :
     c \in 1..Len(ColumnNames), rows \in {<<>>}} \cup
  UNION {{Csv(SubSeq(ColumnNames, 1, c), rows) : rows \in [1..r -> [1..c -> Cells]]} :
           c \in 1..Len(ColumnNames), r \in 1..MaxGridRows}

LongCsvs ==
  UNION {{Csv(<<"a">>, [i \in 1..r |-> <<col[i]>>]) : col \in [1..r -> LongCells]} :
           r \in (MaxGridRows + 1)..MaxLongRows}

CsvBodies ==
  {[kind |-> "undecodable"], [kind |-> "empty"], ExampleCsv} \cup GridCsvs \cup LongCsvs

(***************************************************************************)
(* load_csv_from_bytes: pd.read_csv(io.BytesIO(file_bytes)).               *)
(* A DataFrame is [columns, dtypes, index, rows]; a value is               *)
(*   [k |-> "int", v], [k |-> "float", v], [k |-> "nan"], [k |-> "str", s] *)
(***************************************************************************)
IntVal(v) == [k |-> "int", v |-> v]
FloatVal(v) == [k |-> "float", v |-> v]
NaN == [k |-> "nan"]
StrVal(s) == [k |-> "str", s |-> s]

load_csv_raises_without_rows(file_bytes) ==
  \/ file_bytes.kind \in {"undecodable", "empty"}
  \/ file_bytes.kind = "csv" /\ file_bytes.rows = <<>>

\* UnicodeDecodeError for bytes that are not text, EmptyDataError for a body
\* with no line; a header line with no data line is parsed without error
load_csv_raises(file_bytes) == file_bytes.kind \in {"undecodable", "empty"}

\* the text of a cell, as it stood in the file
CellText(cell) ==
  CASE cell.t = "int" -> ToString(cell.v)
    [] cell.t = "text" -> cell.s
    [] OTHER -> ""

\* type inference of one column: int64 when every cell is an integer, float64
\* when the others are missing, object otherwise (and for a column of no rows)
InferDtype(cells) ==
  IF cells = <<>> THEN "object"
  ELSE IF \A i \in 1..Len(cells) : cells[i].t = "int" THEN "int64"
  ELSE IF \A i \in 1..Len(cells) : cells[i].t \in {"int", "na"} THEN "float64"
  ELSE "object"

ConvertCell(cell, dtype) ==
  IF cell.t = "na" THEN NaN
  ELSE IF dtype = "int64" THEN IntVal(cell.v)
  ELSE IF dtype = "float64" THEN FloatVal(cell.v)
  ELSE StrVal(CellText(cell))

load_csv_from_bytes(file_bytes) ==
  LET header == file_bytes.header
      lines == file_bytes.rows
      dtypes == [j \in 1..Len(header) |->
                   InferDtype([i \in 1..Len(lines) |-> lines[i][j]])]
  IN [columns |-> header,
      dtypes |-> dtypes,
      index |-> [i \in 1..Len(lines) |-> i - 1],
      rows |-> [i \in 1..Len(lines) |->
                  [j \in 1..Len(header) |-> ConvertCell(lines[i][j], dtypes[j])]]]

len(df) == Len(df.rows)

(***************************************************************************)
(* validate_dataframe: raises ValueError when df.empty, that is when the   *)
(* frame has no row or no column; returns True otherwise.                  *)
(***************************************************************************)
df_empty(df) == Len(df.rows) = 0 \/ Len(df.columns) = 0

validate_never_raises(df) == FALSE

validate_checks_columns_only(df) == Len(df.columns) = 0

validate_dataframe_raises(df) == df_empty(df)

(***************************************************************************)
(* aggregate_data                                                          *)
(***************************************************************************)
\* numpy adds int64 values modulo 2^64
Wrap64(x) == ((x - Int64Min) % (16 * P60)) + Int64Min

select_dtypes_int_only(df) ==
  SelectSeq([j \in 1..Len(df.columns) |-> j], LAMBDA j : df.dtypes[j] = "int64")

\* df.select_dtypes(include=['float64', 'int64']).columns, as column positions
select_dtypes(df) ==
  SelectSeq([j \in 1..Len(df.columns) |-> j],
            LAMBDA j : df.dtypes[j] \in {"float64", "int64"})

\* the non-missing numbers of column j, in row order
NonMissing(df, j) ==
  LET col == [i \in 1..Len(df.rows) |-> df.rows[i][j]]
      kept == SelectSeq(col, LAMBDA x : x.k # "nan")
  IN [i \in 1..Len(kept) |-> kept[i].v]

\* Series.sum(): NaN skipped; int64 columns are added in int64, float64
\* columns in floating point (0.0 for a column with no value)
series_sum(df, j) ==
  LET s == SumSeq(NonMissing(df, j))
  IN IF df.dtypes[j] = "int64" THEN IntVal(Wrap64(s)) ELSE FloatVal(s)

\* Series.mean(): NaN skipped; the values are added in float64 and divided by
\* their count, NaN for a column with no value.  A mean is the fraction num/den.
series_mean(df, j) ==
  LET xs == NonMissing(df, j)
  IN IF xs = <<>> THEN NaN
     ELSE [k |-> "float", num |-> SumSeq(xs), den |-> Len(xs)]

Typed(df, j, v) == IF df.dtypes[j] = "int64" THEN IntVal(v) ELSE FloatVal(v)

series_min(df, j) ==
  LET xs == Range(NonMissing(df, j))
  IN IF xs = {} THEN NaN
     ELSE Typed(df, j, CHOOSE m \in xs : \A x \in xs : m <= x)

series_max(df, j) ==
  LET xs == Range(NonMissing(df, j))
  IN IF xs = {} THEN NaN
     ELSE Typed(df, j, CHOOSE m \in xs : \A x \in xs : m >= x)

\* summary_stats, a dict in insertion order: a sequence of [col, mean, sum, min, max]
aggregate_data(df) ==
  LET numeric_cols == select_dtypes(df)
  IN [n \in 1..Len(numeric_cols) |->
        LET j == numeric_cols[n]
        IN [col |-> df.columns[j],
            mean |-> series_mean(df, j),
            sum |-> series_sum(df, j),
            min |-> series_min(df, j),
            max |-> series_max(df, j)]]

(***************************************************************************)
(* prepare_context_for_ai: the context as its sequence of lines.           *)
(***************************************************************************)
HeadRows == 5

head_six(df, n) ==
  LET m == Min2(n + 1, Len(df.rows))
  IN [df EXCEPT !.index = SubSeq(df.index, 1, m), !.rows = SubSeq(df.rows, 1, m)]

\* df.head(n): the first n rows, with their index labels
head(df, n) ==
  LET m == Min2(n, Len(df.rows))
  IN [df EXCEPT !.index = SubSeq(df.index, 1, m), !.rows = SubSeq(df.rows, 1, m)]

\* the text pandas prints for one value
FormatValue(x) ==
  CASE x.k = "int" -> [txt |-> ToString(x.v), suffix |-> ""]
    [] x.k = "float" -> [txt |-> ToString(x.v), suffix |-> ".0"]
    [] x.k = "nan" -> [txt |-> "NaN", suffix |-> ""]
    [] OTHER -> [txt |-> x.s, suffix |-> ""]

\* DataFrame.to_string(): a header line with the column names, then one
\* line per row holding the index label and the formatted values
to_string(df) ==
  IF df_empty(df)
    THEN << [line |-> "text", s |-> "Empty DataFrame"],
            [line |-> "columns", names |-> df.columns],
            [line |-> "text", s |-> "Index: []"] >>
    ELSE << [line |-> "header", names |-> df.columns] >> \o
         [i \in 1..Len(df.rows) |->
            [line |-> "row",
             label |-> df.index[i],
             values |-> [j \in 1..Len(df.columns) |-> FormatValue(df.rows[i][j])]]]

\* str(stats): the dict printed on one line
stats_string(stats) ==
  [line |-> "dict",
   items |-> [n \in 1..Len(stats) |->
                [key |-> stats[n].col,
                 mean |-> stats[n].mean, sum |-> stats[n].sum,
                 min |-> stats[n].min, max |-> stats[n].max]]]

TextLine(s) == [line |-> "text", s |-> s]

\* f"Data Head:\n{head_data}\n\nStatistics:\n{stats_string}"
prepare_context_for_ai(df, stats) ==
  << TextLine("Data Head:") >> \o to_string(head(df, HeadRows)) \o
  << TextLine(""), TextLine("Statistics:") >> \o << stats_string(stats) >>

(***************************************************************************)
(* The raw response of the insight service, as its sequence of lexemes.    *)
(***************************************************************************)
LBrace == [t |-> "{"]
RBrace == [t |-> "}"]
LBracket == [t |-> "["]
RBracket == [t |-> "]"]
Colon == [t |-> ":"]
Comma == [t |-> ","]
\* a double-quoted string
StrTok(s) == [t |-> "string", s |-> s]
\* a number written with a fraction (x10 is ten times its value: 92.5 is 925)
FloatTok(x10) == [t |-> "number", frac |-> TRUE, x10 |-> x10]
\* a number written without fraction or exponent
IntTok(n) == [t |-> "number", frac |-> FALSE, n |-> n]
\* null, true, false in JSON text; None, True, False in Python text
LitTok(s) == [t |-> "literal", s |-> s]
\* a single-quoted string, as Python prints one
PyStrTok(s) == [t |-> "pystring", s |-> s]
\* any other run of characters
WordTok(s) == [t |-> "word", s |-> s]

(***************************************************************************)
(* Python values, tagged with their type.  A dict is its items in          *)
(* insertion order, with unique keys.                                      *)
(***************************************************************************)
PyDict(items) == [py |-> "dict", items |-> items]
PyList(items) == [py |-> "list", items |-> items]
PyStr(s) == [py |-> "str", s |-> s]
PyFloat(x10) == [py |-> "float", x10 |-> x10]
PyInt(n) == [py |-> "int", n |-> n]
PyBool(b) == [py |-> "bool", b |-> b]
PyNone == [py |-> "NoneType"]

Item(key, val) == [key |-> key, val |-> val]

\* d[key] = val
dict_set(items, key, val) ==
  IF \E i \in 1..Len(items) : items[i].key = key
    THEN [i \in 1..Len(items) |->
            IF items[i].key = key THEN Item(key, val) ELSE items[i]]
    ELSE Append(items, Item(key, val))

\* d.get(key, default)
dict_get(d, key, default) ==
  IF \E i \in 1..Len(d.items) : d.items[i].key = key
    THEN d.items[CHOOSE i \in 1..Len(d.items) : d.items[i].key = key].val
    ELSE default

(***************************************************************************)
(* json.loads: one JSON value and nothing after it, JSONDecodeError        *)
(* otherwise.  A parse result is [ok |-> TRUE, val, rest] or ParseError.   *)
(***************************************************************************)
ParseError == [ok |-> FALSE]
Parsed(val, rest) == [ok |-> TRUE, val |-> val, rest |-> rest]

RECURSIVE ParseValue(_)
RECURSIVE ParseElements(_, _)
RECURSIVE ParseMembers(_, _)

ParseValue(ts) ==
  IF ts = <<>> THEN ParseError
  ELSE LET h == Head(ts)
           rest == Tail(ts)
       IN CASE h.t = "number" ->
                 Parsed(IF h.frac THEN PyFloat(h.x10) ELSE PyInt(h.n), rest)
            [] h.t = "string" -> Parsed(PyStr(h.s), rest)
            [] h.t = "literal" ->
                 IF h.s = "null" THEN Parsed(PyNone, rest)
                 ELSE IF h.s = "true" THEN Parsed(PyBool(TRUE), rest)
                 ELSE IF h.s = "false" THEN Parsed(PyBool(FALSE), rest)
                 ELSE ParseError
            [] h.t = "[" ->
                 IF rest # <<>> /\ Head(rest) = RBracket
                   THEN Parsed(PyList(<<>>), Tail(rest))
                   ELSE ParseElements(rest, <<>>)
            [] h.t = "{" ->
                 IF rest # <<>> /\ Head(rest) = RBrace
                   THEN Parsed(PyDict(<<>>), Tail(rest))
                   ELSE ParseMembers(rest, <<>>)
            [] OTHER -> ParseError

\* value ("," value)* "]"
ParseElements(ts, acc) ==
  LET r == ParseValue(ts)
  IN IF ~r.ok \/ r.rest = <<>> THEN ParseError
     ELSE IF Head(r.rest) = Comma
       THEN ParseElements(Tail(r.rest), Append(acc, r.val))
     ELSE IF Head(r.rest) = RBracket
       THEN Parsed(PyList(Append(acc, r.val)), Tail(r.rest))
     ELSE ParseError

\* string ":" value ("," string ":" value)* "}"; a repeated key keeps its
\* place and takes the last value
ParseMembers(ts, acc) ==
  IF Len(ts) < 2 \/ Head(ts).t # "string" \/ ts[2] # Colon THEN ParseError
  ELSE LET r == ParseValue(Tail(Tail(ts)))
       IN IF ~r.ok \/ r.rest = <<>> THEN ParseError
          ELSE IF Head(r.rest) = Comma
            THEN ParseMembers(Tail(r.rest), dict_set(acc, Head(ts).s, r.val))
          ELSE IF Head(r.rest) = RBrace
            THEN Parsed(PyDict(dict_set(acc, Head(ts).s, r.val)), Tail(r.rest))
          ELSE ParseError

json_loads(text) ==
  LET r == ParseValue(text)
  IN IF r.ok /\ r.rest = <<>> THEN r ELSE ParseError

(***************************************************************************)
(* str(value): the text Python prints for a value.                         *)
(***************************************************************************)
RECURSIVE str(_)
RECURSIVE StrJoin(_, _)

\* the items of a dict (keyed) or of a list, separated by commas
StrJoin(items, keyed) ==
  IF items = <<>> THEN <<>>
  ELSE (IF keyed
          THEN <<PyStrTok(Head(items).key), Colon>> \o str(Head(items).val)
          ELSE str(Head(items))) \o
       (IF Len(items) > 1 THEN <<Comma>> ELSE <<>>) \o
       StrJoin(Tail(items), keyed)

str(v) ==
  CASE v.py = "dict" -> <<LBrace>> \o StrJoin(v.items, TRUE) \o <<RBrace>>
    [] v.py = "list" -> <<LBracket>> \o StrJoin(v.items, FALSE) \o <<RBracket>>
    [] v.py = "str" -> <<PyStrTok(v.s)>>
    [] v.py = "float" -> <<FloatTok(v.x10)>>
    [] v.py = "int" -> <<IntTok(v.n)>>
    [] v.py = "bool" -> <<LitTok(IF v.b THEN "True" ELSE "False")>>
    [] OTHER -> <<LitTok("None")>>

(***************************************************************************)
(* The normalization of upload_report: the inner try/except.               *)
(***************************************************************************)
\* score = 50.0
FallbackScore == PyFloat(500)
\* the default of insights_json.get("overall_score", 0.0)
MissingScore == PyFloat(0)

score_default_zero(insights_json) == MissingScore

score_default_fifty(insights_json) ==
  dict_get(insights_json, "overall_score", FallbackScore)

\* insights_json.get("overall_score", 0.0); AttributeError unless a dict
get_overall_score(insights_json) ==
  dict_get(insights_json, "overall_score", MissingScore)

fallback_zero(ai_response) ==
  [exc |-> "none", summary_text |-> ai_response, score |-> MissingScore]

\* except: summary_text = ai_response; score = 50.0
fallback(ai_response) ==
  [exc |-> "none", summary_text |-> ai_response, score |-> FallbackScore]

try_normalize_any_value(ai_response) ==
  LET insights_json == json_loads(ai_response)
  IN IF ~insights_json.ok THEN [exc |-> "JSONDecodeError"]
     ELSE [exc |-> "none",
           summary_text |-> str(insights_json.val),
           score |-> IF insights_json.val.py = "dict"
                       THEN get_overall_score(insights_json.val)
                       ELSE MissingScore]

\* the body of the try: json.loads raises JSONDecodeError on text that is not
\* JSON, and .get raises AttributeError on a value that is not a dict
try_normalize(ai_response) ==
  LET insights_json == json_loads(ai_response)
  IN IF ~insights_json.ok THEN [exc |-> "JSONDecodeError"]
     ELSE IF insights_json.val.py # "dict" THEN [exc |-> "AttributeError"]
     ELSE [exc |-> "none",
           summary_text |-> str(insights_json.val),
           score |-> get_overall_score(insights_json.val)]

except_catches_decode_error_only(exc) == exc = "JSONDecodeError"

\* a bare except: takes every exception
except_catches(exc) == TRUE

\* the try/except as a whole; exc is the exception that leaves it, if any
normalize(ai_response) ==
  LET tried == try_normalize(ai_response)
  IN IF tried.exc = "none" THEN tried
     ELSE IF except_catches(tried.exc) THEN fallback(ai_response)
     ELSE [exc |-> tried.exc]

(***************************************************************************)
(* The raw responses enumerated: the JSON text of every value of bounded   *)
(* size, every proper prefix of such a text (a truncated response, the     *)
(* empty response included), such a text followed by more words, such a    *)
(* text inside a Markdown code fence, and plain prose.                     *)
(***************************************************************************)
Scalars == {PyFloat(925), PyInt(90), PyStr("high"), PyNone, PyBool(TRUE)}
MemberValues == Scalars \cup {PyList(<<PyInt(90)>>), PyDict(<<>>)}
Keys == {"overall_score", "summary"}

\* the members of an object as written: a key may be written twice
ObjectTrees ==
  {PyDict(items) :
     items \in SeqsUpTo({Item(key, val) : key \in Keys, val \in MemberValues}, MaxMembers)}
ListTrees == {PyList(items) : items \in SeqsUpTo(Scalars, MaxMembers)}
JsonTrees == Scalars \cup ObjectTrees \cup ListTrees

RECURSIVE dumps(_)
RECURSIVE DumpsJoin(_, _)

DumpsJoin(items, keyed) ==
  IF items = <<>> THEN <<>>
  ELSE (IF keyed
          THEN <<StrTok(Head(items).key), Colon>> \o dumps(Head(items).val)
          ELSE dumps(Head(items))) \o
       (IF Len(items) > 1 THEN <<Comma>> ELSE <<>>) \o
       DumpsJoin(Tail(items), keyed)

\* the JSON text of a value
dumps(v) ==
  CASE v.py = "dict" -> <<LBrace>> \o DumpsJoin(v.items, TRUE) \o <<RBrace>>
    [] v.py = "list" -> <<LBracket>> \o DumpsJoin(v.items, FALSE) \o <<RBracket>>
    [] v.py = "str" -> <<StrTok(v.s)>>
    [] v.py = "float" -> <<FloatTok(v.x10)>>
    [] v.py = "int" -> <<IntTok(v.n)>>
    [] v.py = "bool" -> <<LitTok(IF v.b THEN "true" ELSE "false")>>
    [] OTHER -> <<LitTok("null")>>

Prose == <<WordTok("Sales"), WordTok("are"), WordTok("strong.")>>
\* a Markdown code fence around the text (the fence is three backquotes)
Fenced(text) == <<WordTok("[fence]json")>> \o text \o <<WordTok("[fence]")>>

JsonTexts == {dumps(v) : v \in JsonTrees}

RawResponses ==
  JsonTexts \cup
  UNION {{SubSeq(text, 1, n) : n \in 0..(Len(text) - 1)} : text \in JsonTexts} \cup
  {text \o <<WordTok("Thanks.")>> : text \in JsonTexts} \cup
  {Fenced(text) : text \in JsonTexts} \cup
  {Prose}

\* the responses the whole pipeline is run with
PipelineResponses ==
  { Prose,
    dumps(PyDict(<<Item("overall_score", PyFloat(925)), Item("summary", PyStr("high"))>>)),
    dumps(PyDict(<<Item("summary", PyStr("high"))>>)),
    dumps(PyDict(<<Item("overall_score", PyStr("high"))>>)),
    dumps(PyDict(<<Item("overall_score", PyInt(90))>>)),
    dumps(PyList(<<PyInt(90)>>)),
    Fenced(dumps(PyDict(<<Item("overall_score", PyFloat(925))>>))) }

\* generate_insights(context): returns a text or raises
Returns(text) == [raises |-> FALSE, text |-> text]
Raises == [raises |-> TRUE]
generate_insights(responses) == {Raises} \cup {Returns(text) : text \in responses}

\* the uploads the whole pipeline is run with
Filenames == {"q1.csv", "q2.csv"}
PipelineBodies ==
  { [kind |-> "undecodable"],
    Csv(<<"a">>, <<>>),
    ExampleCsv,
    Csv(<<"a">>, [i \in 1..MaxLongRows |-> <<IntCell(i)>>]) }

(***************************************************************************)
(* The service.  upload_report is synchronous from load_csv_from_bytes to  *)
(* its return, so one request is in progress at a time; pc is the          *)
(* statement of upload_report that runs next ("idle": no request).         *)
(***************************************************************************)
VARIABLES
  pc,             \* position in upload_report
  uploads,        \* upload requests received so far
  filename,       \* file.filename
  contents,       \* contents = await file.read()
  df, stats, context, ai_response, summary_text, score,   \* locals of upload_report
  new_report,     \* the Report object added to the session
  reports,        \* the rows of table "reports", in id order
  response,       \* the last HTTP response sent
  ai_calls,       \* calls of generate_insights made by the current request
  ai_returned,    \* generate_insights has returned in the current request
  raised,         \* the step of the current request that raised, or "none"
  reports_before, \* table "reports" when the current request arrived
  succeeded       \* the rows of the uploads answered with success, in order
\* The current request is the one in progress or, when pc = "idle", the one
\* answered last; its locals are kept until the next request arrives.

vars ==
  <<pc, uploads, filename, contents, df, stats, context, ai_response, summary_text,
    score, new_report, reports, response, ai_calls, ai_returned, raised, reports_before,
    succeeded>>

NoBody == [kind |-> "none"]
NoFrame == [columns |-> <<>>, dtypes |-> <<>>, index |-> <<>>, rows |-> <<>>]
NoScore == [py |-> "unset"]
NoReport == [id |-> 0]
NoResponse == [status |-> 0]

Init ==
  /\ pc = "idle"
  /\ uploads = 0
  /\ filename = ""
  /\ contents = NoBody
  /\ df = NoFrame
  /\ stats = <<>>
  /\ context = <<>>
  /\ ai_response = <<>>
  /\ summary_text = <<>>
  /\ score = NoScore
  /\ new_report = NoReport
  /\ reports = <<>>
  /\ response = NoResponse
  /\ ai_calls = 0
  /\ ai_returned = FALSE
  /\ raised = "none"
  /\ reports_before = <<>>
  /\ succeeded = <<>>

\* except Exception as e: raise HTTPException(status_code=500, detail=str(e));
\* get_db then closes the session, which drops what it had not committed
Raise(step, error) ==
  /\ pc' = "idle"
  /\ raised' = step
  /\ response' = [status |-> 500, detail |-> error]
  /\ new_report' = NoReport

\* POST /upload with a file: contents = await file.read()
Receive(names, bodies) ==
  /\ pc = "idle"
  /\ UNCHANGED succeeded
  /\ uploads < MaxUploads
  /\ \E name \in names, body \in bodies :
       /\ filename' = name
       /\ contents' = body
  /\ pc' = "load"
  /\ uploads' = uploads + 1
  /\ df' = NoFrame
  /\ stats' = <<>>
  /\ context' = <<>>
  /\ ai_response' = <<>>
  /\ summary_text' = <<>>
  /\ score' = NoScore
  /\ new_report' = NoReport
  /\ response' = NoResponse
  /\ ai_calls' = 0
  /\ ai_returned' = FALSE
  /\ raised' = "none"
  /\ reports_before' = reports
  /\ UNCHANGED reports

UploadRequest == Receive(Filenames, PipelineBodies)

\* POST /upload without a file: file: UploadFile = File(...) is required, and
\* the request is answered 422 before upload_report runs
RejectNoFile ==
  /\ pc = "idle"
  /\ UNCHANGED succeeded
  /\ response' = [status |-> 422]
  /\ raised' = "request"
  /\ filename' = ""
  /\ contents' = NoBody
  /\ df' = NoFrame
  /\ stats' = <<>>
  /\ context' = <<>>
  /\ ai_response' = <<>>
  /\ summary_text' = <<>>
  /\ score' = NoScore
  /\ ai_calls' = 0
  /\ ai_returned' = FALSE
  /\ reports_before' = reports
  /\ UNCHANGED <<pc, uploads, new_report, reports>>

\* df = load_csv_from_bytes(contents)
Load ==
  /\ pc = "load"
  /\ UNCHANGED succeeded
  /\ \/ /\ load_csv_raises(contents)
        /\ Raise("load", IF contents.kind = "empty" THEN "EmptyDataError"
                         ELSE "UnicodeDecodeError")
        /\ UNCHANGED df
     \/ /\ ~load_csv_raises(contents)
        /\ df' = load_csv_from_bytes(contents)
        /\ pc' = "validate"
        /\ UNCHANGED <<raised, response, new_report>>
  /\ UNCHANGED <<uploads, filename, contents, stats, context, ai_response, summary_text,
                 score, reports, ai_calls, ai_returned, reports_before>>

\* validate_dataframe(df)
Validate ==
  /\ pc = "validate"
  /\ UNCHANGED succeeded
  /\ \/ /\ validate_dataframe_raises(df)
        /\ Raise("validate", "ValueError")
     \/ /\ ~validate_dataframe_raises(df)
        /\ pc' = "aggregate"
        /\ UNCHANGED <<raised, response, new_report>>
  /\ UNCHANGED <<uploads, filename, contents, df, stats, context, ai_response,
                 summary_text, score, reports, ai_calls, ai_returned, reports_before>>

\* stats = aggregate_data(df)
Aggregate ==
  /\ pc = "aggregate"
  /\ UNCHANGED succeeded
  /\ stats' = aggregate_data(df)
  /\ pc' = "context"
  /\ UNCHANGED <<uploads, filename, contents, df, context, ai_response, summary_text,
                 score, new_report, reports, response, ai_calls, ai_returned, raised,
                 reports_before>>

\* context = prepare_context_for_ai(df, stats)
PrepareContext ==
  /\ pc = "context"
  /\ UNCHANGED succeeded
  /\ context' = prepare_context_for_ai(df, stats)
  /\ pc' = "generate"
  /\ UNCHANGED <<uploads, filename, contents, df, stats, ai_response, summary_text,
                 score, new_report, reports, response, ai_calls, ai_returned, raised,
                 reports_before>>

CallInsightsRetry(responses) ==
  /\ pc = "generate"
  /\ UNCHANGED succeeded
  /\ ai_calls < 2
  /\ ai_calls' = ai_calls + 1
  /\ \E outcome \in generate_insights(responses) :
       \/ /\ outcome.raises
          /\ UNCHANGED <<pc, raised, response, new_report, ai_response, ai_returned>>
       \/ /\ ~outcome.raises
          /\ ai_response' = outcome.text
          /\ ai_returned' = TRUE
          /\ pc' = "normalize"
          /\ UNCHANGED <<raised, response, new_report>>
  /\ UNCHANGED <<uploads, filename, contents, df, stats, context, summary_text, score,
                 reports, reports_before>>

CallInsightsSwallow(responses) ==
  /\ pc = "generate"
  /\ UNCHANGED succeeded
  /\ ai_calls' = ai_calls + 1
  /\ \E outcome \in generate_insights(responses) :
       \/ /\ outcome.raises
          /\ ai_response' = <<>>
          /\ pc' = "normalize"
          /\ UNCHANGED <<raised, response, new_report, ai_returned>>
       \/ /\ ~outcome.raises
          /\ ai_response' = outcome.text
          /\ ai_returned' = TRUE
          /\ pc' = "normalize"
          /\ UNCHANGED <<raised, response, new_report>>
  /\ UNCHANGED <<uploads, filename, contents, df, stats, context, summary_text, score,
                 reports, reports_before>>

\* ai_response = generate_insights(context): one call, whose exception goes
\* to the outer except
CallInsights(responses) ==
  /\ pc = "generate"
  /\ UNCHANGED succeeded
  /\ ai_calls' = ai_calls + 1
  /\ \E outcome \in generate_insights(responses) :
       \/ /\ outcome.raises
          /\ Raise("generate", "ExternalServiceError")
          /\ UNCHANGED <<ai_response, ai_returned>>
       \/ /\ ~outcome.raises
          /\ ai_response' = outcome.text
          /\ ai_returned' = TRUE
          /\ pc' = "normalize"
          /\ UNCHANGED <<raised, response, new_report>>
  /\ UNCHANGED <<uploads, filename, contents, df, stats, context, summary_text, score,
                 reports, reports_before>>

GenerateInsights == CallInsights(PipelineResponses)

\* the inner try/except; an exception it did not take would go to the outer
\* except
Normalize ==
  /\ pc = "normalize"
  /\ UNCHANGED succeeded
  /\ IF normalize(ai_response).exc = "none"
       THEN /\ summary_text' = normalize(ai_response).summary_text
            /\ score' = normalize(ai_response).score
            /\ pc' = "add"
            /\ UNCHANGED <<raised, response, new_report>>
       ELSE /\ Raise("normalize", normalize(ai_response).exc)
            /\ UNCHANGED <<summary_text, score>>
  /\ UNCHANGED <<uploads, filename, contents, df, stats, context, ai_response,
                 reports, ai_calls, ai_returned, reports_before>>

AddReportRawSummary ==
  /\ pc = "add"
  /\ UNCHANGED succeeded
  /\ new_report' = [id |-> 0,
                    filename |-> filename,
                    total_rows |-> len(df),
                    summary_text |-> ai_response,
                    insight_score |-> score]
  /\ pc' = "commit"
  /\ UNCHANGED <<uploads, filename, contents, df, stats, context, ai_response,
                 summary_text, score, reports, response, ai_calls, ai_returned, raised,
                 reports_before>>

\* new_report = Report(...); db.add(new_report)
AddReport ==
  /\ pc = "add"
  /\ UNCHANGED succeeded
  /\ new_report' = [id |-> 0,
                    filename |-> filename,
                    total_rows |-> len(df),
                    summary_text |-> summary_text,
                    insight_score |-> score]
  /\ pc' = "commit"
  /\ UNCHANGED <<uploads, filename, contents, df, stats, context, ai_response,
                 summary_text, score, reports, response, ai_calls, ai_returned, raised,
                 reports_before>>

\* insight_score = Column(Float): a number is stored as a float; None is
\* stored as NULL, and a text is kept as it is by an engine that does not
\* check the column type (an engine that does fails the commit)
FloatColumn(value) ==
  CASE value.py = "int" -> PyFloat(10 * value.n)
    [] value.py = "bool" -> PyFloat(IF value.b THEN 10 ELSE 0)
    [] OTHER -> value

\* db.commit(): the row is inserted with the next id, or the commit fails
Commit ==
  /\ pc = "commit"
  /\ UNCHANGED succeeded
  /\ \/ /\ new_report' = [new_report EXCEPT !.id = Len(reports) + 1]
        /\ reports' = Append(reports,
                             [new_report' EXCEPT
                                !.insight_score = FloatColumn(new_report.insight_score)])
        /\ pc' = "refresh"
        /\ UNCHANGED <<raised, response>>
     \/ /\ Raise("commit", "StorageError")
        /\ UNCHANGED reports
  /\ UNCHANGED <<uploads, filename, contents, df, stats, context, ai_response,
                 summary_text, score, ai_calls, ai_returned, reports_before>>

\* db.refresh(new_report): the row is read back, or the read fails
Refresh ==
  /\ pc = "refresh"
  /\ UNCHANGED succeeded
  /\ \/ /\ pc' = "return"
        /\ new_report' = reports[new_report.id]
        /\ UNCHANGED <<raised, response>>
     \/ Raise("refresh", "StorageError")
  /\ UNCHANGED <<uploads, filename, contents, df, stats, context, ai_response,
                 summary_text, score, reports, ai_calls, ai_returned, reports_before>>

\* return {"status": "success", "report_id": new_report.id, "insights": summary_text}
Return ==
  /\ pc = "return"
  /\ succeeded' = Append(succeeded, reports[new_report.id])
  /\ response' = [status |-> 200, report_id |-> new_report.id, insights |-> summary_text]
  /\ pc' = "idle"
  /\ new_report' = NoReport
  /\ UNCHANGED <<uploads, filename, contents, df, stats, context, ai_response,
                 summary_text, score, reports, ai_calls, ai_returned, raised,
                 reports_before>>

\* GET /reports: db.query(Report).all()
GetReports ==
  /\ pc = "idle"
  /\ UNCHANGED succeeded
  /\ response' = [status |-> 200, reports |-> reports]
  /\ raised' = "none"
  /\ filename' = ""
  /\ contents' = NoBody
  /\ df' = NoFrame
  /\ stats' = <<>>
  /\ context' = <<>>
  /\ ai_response' = <<>>
  /\ summary_text' = <<>>
  /\ score' = NoScore
  /\ ai_calls' = 0
  /\ ai_returned' = FALSE
  /\ reports_before' = reports
  /\ UNCHANGED <<pc, uploads, new_report, reports>>

Next ==
  \/ UploadRequest
  \/ RejectNoFile
  \/ Load
  \/ Validate
  \/ Aggregate
  \/ PrepareContext
  \/ GenerateInsights
  \/ Normalize
  \/ AddReport
  \/ Commit
  \/ Refresh
  \/ Return
  \/ GetReports

\* the service, with the uploads and responses of PipelineBodies and
\* PipelineResponses
Spec == Init /\ [][Next]_vars

(***************************************************************************)
(* The data path alone (load, validate, aggregate, build the context),     *)
(* over every CSV body of CsvBodies.                                       *)
(***************************************************************************)
UploadAnyBody == Receive({"q1.csv"}, CsvBodies)

NextData ==
  \/ UploadAnyBody
  \/ Load
  \/ Validate
  \/ Aggregate
  \/ PrepareContext

SpecData == Init /\ [][NextData]_vars

(***************************************************************************)
(* The call of the insight service and the normalization of its response,  *)
(* over every raw response of RawResponses, for the upload of ExampleCsv.  *)
(***************************************************************************)
InitNorm ==
  /\ pc = "generate"
  /\ uploads = 1
  /\ filename = "q1.csv"
  /\ contents = ExampleCsv
  /\ df = load_csv_from_bytes(ExampleCsv)
  /\ stats = aggregate_data(load_csv_from_bytes(ExampleCsv))
  /\ context = prepare_context_for_ai(load_csv_from_bytes(ExampleCsv),
                                      aggregate_data(load_csv_from_bytes(ExampleCsv)))
  /\ ai_response = <<>>
  /\ summary_text = <<>>
  /\ score = NoScore
  /\ new_report = NoReport
  /\ reports = <<>>
  /\ response = NoResponse
  /\ ai_calls = 0
  /\ ai_returned = FALSE
  /\ raised = "none"
  /\ reports_before = <<>>
  /\ succeeded = <<>>

GenerateAnyResponse == CallInsights(RawResponses)

NextNorm ==
  \/ GenerateAnyResponse
  \/ Normalize
  \/ AddReport

SpecNorm == InitNorm /\ [][NextNorm]_vars

(***************************************************************************)
(* Properties of the service (specification Spec).                         *)
(***************************************************************************)
HeaderOnly(body) == body.kind = "csv" /\ body.rows = <<>>

\* C1: in a request where the Loader, the Validator, the Aggregator or the
\* Context Builder raised, generate_insights was not called and table
\* "reports" is as it was when the request arrived; and a request whose CSV
\* has a header row and no data row never gets past validate_dataframe: it
\* fails there, with no call of generate_insights and no row added.
C1_EarlyErrorStopsPipeline ==
  /\ raised \in {"load", "validate", "aggregate", "context"} =>
       /\ pc = "idle"
       /\ response.status = 500
       /\ ai_calls = 0
       /\ reports = reports_before
  /\ (HeaderOnly(contents) /\ pc \notin {"load", "validate"}) =>
       /\ raised = "validate"
       /\ ai_calls = 0
       /\ reports = reports_before

\* a header-only upload was answered 500 by the Validator, with reports stored
\* by an earlier upload left in place
C1_Witness ==
  /\ HeaderOnly(contents)
  /\ raised = "validate"
  /\ response.status = 500
  /\ ai_calls = 0
  /\ reports # <<>>

\* C2: table "reports" grows in a request only after generate_insights has
\* returned in that request, and by one row at most; a request in which
\* generate_insights raised is over, answered 500, and left the table as it
\* was when the request arrived.
C2_RecordOnlyAfterInsights ==
  /\ reports # reports_before =>
       /\ ai_returned
       /\ pc \in {"refresh", "return", "idle"}
       /\ Len(reports) = Len(reports_before) + 1
       /\ SubSeq(reports, 1, Len(reports_before)) = reports_before
  /\ pc \in {"add", "commit", "refresh", "return"} => ai_returned
  /\ raised = "generate" =>
       /\ ~ai_returned
       /\ pc = "idle"
       /\ response.status = 500
       /\ reports = reports_before

\* generate_insights raised in the second upload, after a first upload had
\* stored its record
C2_Witness ==
  /\ raised = "generate"
  /\ ai_calls = 1
  /\ response.status = 500
  /\ Len(reports) = 1
  /\ reports = reports_before

\* C10: a request calls generate_insights at most once: after a call that
\* raised the request is over, and after a call that returned the request is
\* past the call.
C10_AtMostOneInsightCall ==
  /\ ai_calls <= 1
  /\ ai_calls = 1 => pc # "generate"
  /\ (ai_calls = 1 /\ ~ai_returned) => (pc = "idle" /\ raised = "generate")

\* the one call of a request raised, and the request ended without another
C10_Witness ==
  /\ ai_calls = 1
  /\ ~ai_returned
  /\ raised = "generate"
  /\ pc = "idle"

(***************************************************************************)
(* Properties of the data path (specification SpecData).  What a CSV body  *)
(* holds is read off its cells, not off the DataFrame made from it.        *)
(***************************************************************************)
\* every non-missing cell of column j is a number
NumericColumn(body, j) ==
  \A i \in 1..Len(body.rows) : body.rows[i][j].t \in {"int", "na"}

\* the numbers of column j, in row order
NumbersOf(body, j) ==
  LET col == [i \in 1..Len(body.rows) |-> body.rows[i][j]]
      kept == SelectSeq(col, LAMBDA cell : cell.t = "int")
  IN [i \in 1..Len(kept) |-> kept[i].v]

StatsKeys == {stats[n].col : n \in 1..Len(stats)}

\* C6: validate_dataframe raises on every Dataset with no row; on a Dataset
\* with at least one row and one column it returns, and the Dataset that goes
\* on to the Aggregator is the one the Loader made.
C6_ValidatorRejectsExactlyEmpty ==
  /\ pc \in {"aggregate", "context", "generate"} =>
       /\ len(df) >= 1
       /\ raised = "none"
       /\ df = load_csv_from_bytes(contents)
  /\ raised = "validate" =>
       /\ ~(len(df) >= 1 /\ Len(df.columns) >= 1)
       /\ df = load_csv_from_bytes(contents)

\* the Validator raised on a Dataset of two columns and no row
C6_Witness ==
  /\ raised = "validate"
  /\ len(df) = 0
  /\ df.columns = <<"a", "b">>
  /\ response.status = 500

C7_ExampleWitness ==
  /\ pc = "context"
  /\ contents = ExampleCsv
  /\ StatsKeys = {"a"}

\* C8: for every numeric column with at least one non-missing value, sum is
\* the arithmetic sum of the non-missing values, mean is that sum divided by
\* their count, and min and max are the smallest and the largest of them.
C8_StatisticsAreArithmetic ==
  pc \in {"context", "generate"} =>
    \A n \in 1..Len(stats), j \in 1..Len(contents.header) :
      (contents.header[j] = stats[n].col /\ NumbersOf(contents, j) # <<>>) =>
        LET xs == NumbersOf(contents, j)
        IN /\ stats[n].sum.v = SumSeq(xs)
           /\ stats[n].mean.num * Len(xs) = SumSeq(xs) * stats[n].mean.den
           /\ stats[n].min.v \in Range(xs)
           /\ stats[n].max.v \in Range(xs)
           /\ \A i \in 1..Len(xs) : stats[n].min.v <= xs[i] /\ xs[i] <= stats[n].max.v

\* C8, the example: column a of "a,b\n1,2\n3,4\n5,x\n" has mean 3, sum 9,
\* min 1, max 5
C8_ExampleHolds ==
  (pc = "context" /\ contents = ExampleCsv) =>
    /\ Len(stats) = 1
    /\ stats[1].sum.v = 9
    /\ stats[1].mean.num = 3 * stats[1].mean.den
    /\ stats[1].min.v = 1
    /\ stats[1].max.v = 5

\* C9: the context is the line "Data Head:", the header line, one line for
\* each of the first min(5, rowCount) rows in their order, an empty line, the
\* line "Statistics:" (which occurs once), and the statistics; it never
\* holds more than 5 row lines.
C9_ContextLayout ==
  pc = "generate" =>
    LET n == IF len(df) < 5 THEN len(df) ELSE 5
        markers == {i \in 1..Len(context) : context[i] = TextLine("Statistics:")}
        row_lines == {i \in 1..Len(context) : context[i].line = "row"}
    IN /\ Len(context) = n + 5
       /\ context[1] = TextLine("Data Head:")
       /\ context[2] = [line |-> "header", names |-> contents.header]
       /\ \A i \in 1..n :
            context[2 + i] =
              [line |-> "row",
               label |-> i - 1,
               values |-> [j \in 1..Len(df.columns) |-> FormatValue(df.rows[i][j])]]
       /\ context[n + 3] = TextLine("")
       /\ markers = {n + 4}
       /\ context[n + 5] = stats_string(stats)
       /\ row_lines = 3..(n + 2)
       /\ Cardinality(row_lines) <= 5

\* a Dataset of 6 rows whose context holds rows 0 to 4 and not the sixth
C9_Witness ==
  /\ pc = "generate"
  /\ len(df) = 6
  /\ Cardinality({i \in 1..Len(context) : context[i].line = "row"}) = 5
  /\ context[7].label = 4

(***************************************************************************)
(* Properties of the normalization (specification SpecNorm).  Whether a    *)
(* response is JSON text is read off the way it was written (JsonTexts),   *)
(* as well as off json_loads.                                              *)
(***************************************************************************)
Normalized == pc \in {"add", "commit"}

\* the value an object, as written, gives a key: that of its last member
\* with the key
HasMember(items, key) == \E i \in 1..Len(items) : items[i].key = key
LastMember(items, key) ==
  items[CHOOSE i \in 1..Len(items) :
          /\ items[i].key = key
          /\ \A k \in (i + 1)..Len(items) : items[k].key # key].val

\* the JSON texts of the objects written with a numeric overall_score, each
\* with that number
ScoredObjectTexts ==
  {[text |-> dumps(tree), overall_score |-> LastMember(tree.items, "overall_score")] :
     tree \in {t \in ObjectTrees :
                 /\ HasMember(t.items, "overall_score")
                 /\ LastMember(t.items, "overall_score").py \in {"float", "int"}}}

\* C3: a raw response that is not JSON text is normalized to itself as
\* summary_text, token for token, and to the score 50.0.
C3_UnparseableFallsBack ==
  (Normalized /\ (ai_response \notin JsonTexts \/ ~json_loads(ai_response).ok)) =>
    /\ summary_text = ai_response
    /\ score = [py |-> "float", x10 |-> 500]

\* the response "Sales are strong." was normalized to itself and 50.0
C3_Witness ==
  /\ pc = "add"
  /\ ai_response = <<WordTok("Sales"), WordTok("are"), WordTok("strong.")>>
  /\ summary_text = ai_response
  /\ score = [py |-> "float", x10 |-> 500]

\* C4: a raw response that is the JSON text of an object with a numeric
\* overall_score is normalized to that number as score (92.5 for
\* {"overall_score": 92.5}) and to the text Python prints for the parsed dict
\* as summary_text.
C4_NumericScoreIsTaken ==
  Normalized =>
    /\ \A scored \in ScoredObjectTexts :
         ai_response = scored.text =>
           /\ score = scored.overall_score
           /\ json_loads(ai_response).ok
           /\ summary_text = str(json_loads(ai_response).val)
    /\ ai_response = <<LBrace, StrTok("overall_score"), Colon, FloatTok(925), RBrace>> =>
         /\ score = [py |-> "float", x10 |-> 925]
         /\ summary_text =
              <<LBrace, PyStrTok("overall_score"), Colon, FloatTok(925), RBrace>>

\* {"summary": "high", "overall_score": 92.5} was normalized to the score 92.5
C4_Witness ==
  /\ pc = "add"
  /\ ai_response = <<LBrace, StrTok("summary"), Colon, StrTok("high"), Comma,
                     StrTok("overall_score"), Colon, FloatTok(925), RBrace>>
  /\ score = [py |-> "float", x10 |-> 925]
  /\ summary_text = <<LBrace, PyStrTok("summary"), Colon, PyStrTok("high"), Comma,
                      PyStrTok("overall_score"), Colon, FloatTok(925), RBrace>>

\* C5: the normalization step never raises: once generate_insights has
\* returned, whatever it returned, the request goes on to build the Report
\* with a summary_text and a score, and no exception of the step ends it.
C5_NormalizationNeverRaises ==
  /\ raised # "normalize"
  /\ ai_returned =>
       /\ raised = "none"
       /\ pc \in {"normalize", "add", "commit"}
  /\ Normalized =>
       /\ ai_returned
       /\ score # NoScore
       /\ summary_text \in {ai_response} \cup
            (IF json_loads(ai_response).ok
               THEN {str(json_loads(ai_response).val)} ELSE {})
  /\ pc = "commit" =>
       /\ new_report.summary_text = summary_text
       /\ new_report.insight_score = score

\* a response that is JSON but no object (a list): .get raised inside the
\* try, and the Report was still built, with the response itself and 50.0
C5_Witness ==
  /\ pc = "commit"
  /\ json_loads(ai_response).ok
  /\ json_loads(ai_response).val.py = "list"
  /\ new_report.summary_text = ai_response
  /\ new_report.insight_score = [py |-> "float", x10 |-> 500]

(***************************************************************************)
(* The record of a successful upload                                       *)
(***************************************************************************)
\* the response of POST /upload that reports success
UploadSucceeded ==
  /\ pc = "idle"
  /\ response # NoResponse
  /\ "report_id" \in DOMAIN response

\* Python's == on two scores: numbers compare by value, whatever their type
IsNumber(value) == value.py \in {"float", "int", "bool"}
NumberOf(value) ==
  CASE value.py = "float" -> value.x10
    [] value.py = "int" -> 10 * value.n
    [] value.py = "bool" -> IF value.b THEN 10 ELSE 0
ScoresEqual(a, b) ==
  IF IsNumber(a) /\ IsNumber(b) THEN NumberOf(a) = NumberOf(b) ELSE a = b

\* C11: an upload answered with success has added exactly one row to the
\* table: its filename is the uploaded file's name, its total_rows the number
\* of data rows of the file, its summary_text and insight_score the normalized
\* ones; the response carries the id of that row and the same summary_text
C11_SuccessCreatedOneRecord ==
  UploadSucceeded =>
    /\ response.status = 200
    /\ Len(reports) = Len(reports_before) + 1
    /\ SubSeq(reports, 1, Len(reports_before)) = reports_before
    /\ LET record == reports[Len(reports)]
       IN /\ record.filename = filename
          /\ record.total_rows = Len(contents.rows)
          /\ record.total_rows = len(df)
          /\ record.summary_text = summary_text
          /\ record.summary_text = normalize(ai_response).summary_text
          /\ ScoresEqual(record.insight_score, score)
          /\ score = normalize(ai_response).score
          /\ response.report_id = record.id
          /\ \A i \in 1..Len(reports_before) : reports[i].id # record.id
          /\ response.insights = record.summary_text

\* the second upload of the example file, answered by a JSON object: row 2
\* holds the three data rows' count and the rendering of the object
C11_Witness ==
  /\ UploadSucceeded
  /\ Len(reports_before) = 1
  /\ contents = ExampleCsv
  /\ filename = "q2.csv"
  /\ json_loads(ai_response).ok
  /\ reports[2].total_rows = 3
  /\ reports[2].filename = "q2.csv"
  /\ reports[2].summary_text # ai_response
  /\ response.report_id = 2
  /\ response.insights = reports[2].summary_text

(***************************************************************************)
(* The listing                                                             *)
(***************************************************************************)
\* the response of GET /reports
Listed ==
  /\ pc = "idle"
  /\ response # NoResponse
  /\ "reports" \in DOMAIN response

\* the table only grows during a request: the rows it held when the request
\* arrived are still its first rows, unchanged
RowsKept ==
  /\ Len(reports_before) <= Len(reports)
  /\ SubSeq(reports, 1, Len(reports_before)) = reports_before

\* C12: the listing answers 200, on an empty table too, with exactly the rows
\* created by the uploads answered with success so far, each as it was
\* created; no request changes or removes a row, and the listing leaves the
\* table as it was
C12_ListingReturnsSuccessfulUploads ==
  /\ RowsKept
  /\ Listed =>
       /\ response.status = 200
       /\ response.reports = succeeded
       /\ reports = reports_before

\* what the listing does return: every row of the table, the rows of the
\* uploads answered with success among them, in the order of their ids
ListingReturnsStoredRows ==
  /\ RowsKept
  /\ \A i \in 1..Len(reports) : reports[i].id = i
  /\ \A i \in 1..Len(succeeded) :
       \E j \in 1..Len(reports) : reports[j] = succeeded[i]
  /\ Listed =>
       /\ response.status = 200
       /\ response.reports = reports
       /\ reports = reports_before

\* a listing that returns a row no successful upload created
ListingReturnsUnreportedRow ==
  /\ Listed
  /\ succeeded = <<>>
  /\ Len(response.reports) = 1

(***************************************************************************)
(* Requests answered with an error                                         *)
(***************************************************************************)
\* the response of POST /upload that reports an error
UploadFailed ==
  /\ pc = "idle"
  /\ response.status \in {422, 500}

\* C15: an upload answered with an error (422 without a file; 500 after a
\* failure of a pipeline step, of the commit or of the refresh after the
\* commit) leaves the table exactly as it was when the request arrived
C15_ErrorLeavesStorageUnchanged ==
  UploadFailed => reports = reports_before

\* the same without the refresh: an upload that failed before its commit
\* succeeded leaves the table as it was
ErrorBeforeCommitLeavesStorageUnchanged ==
  (UploadFailed /\ raised # "refresh") => reports = reports_before

\* an upload answered 500 whose row is in the table
FailedUploadLeftRow ==
  /\ UploadFailed
  /\ response.status = 500
  /\ raised = "refresh"
  /\ reports # reports_before

(***************************************************************************)
(* The Loader on a body with a header line and no data line                *)
(***************************************************************************)
\* load_csv_from_bytes has returned a Dataset in the current request
Loaded ==
  \/ pc \in {"validate", "aggregate", "context", "generate"}
  \/ raised = "validate"

C14_ScoreIsFloat ==
  /\ pc \in {"add", "commit", "refresh", "return"} =>
       /\ score.py = "float"
       /\ DOMAIN summary_text = 1..Len(summary_text)
  /\ \A i \in 1..Len(reports) :
       /\ reports[i].insight_score.py = "float"
       /\ DOMAIN reports[i].summary_text = 1..Len(reports[i].summary_text)

\* the summary_text alone: always a string
SummaryIsText ==
  /\ pc \in {"add", "commit", "refresh", "return"} =>
       DOMAIN summary_text = 1..Len(summary_text)
  /\ \A i \in 1..Len(reports) :
       DOMAIN reports[i].summary_text = 1..Len(reports[i].summary_text)

\* the response {"overall_score": "high"}: the normalized score is the str
\* 'high', and the row of the upload answered with success holds it
StringScoreStored ==
  /\ UploadSucceeded
  /\ score = PyStr("high")
  /\ reports[Len(reports)].insight_score = PyStr("high")

(***************************************************************************)
(* The two defaults of the normalization (specification SpecNorm)          *)
(***************************************************************************)
\* the JSON texts of the objects written without an overall_score, each with
\* the dict it stands for: one entry per key, holding the last value written
UnscoredObjectTexts ==
  {[text |-> dumps(tree),
    parsed |-> IF tree.items = <<>> THEN PyDict(<<>>)
               ELSE PyDict(<<Item("summary", LastMember(tree.items, "summary"))>>)] :
     tree \in {t \in ObjectTrees : ~HasMember(t.items, "overall_score")}}

\* C16: a response that is the JSON text of an object without an
\* overall_score is normalized to the score 0.0, not 50.0, and to the
\* rendering of the parsed object as summary_text; the score 50.0 comes from
\* the fallback branch only, where the response is not JSON or no object
C16_MissingScoreIsZero ==
  Normalized =>
    /\ \A object \in UnscoredObjectTexts :
         ai_response = object.text =>
           /\ score = [py |-> "float", x10 |-> 0]
           /\ summary_text = str(object.parsed)
    /\ score = [py |-> "float", x10 |-> 500] =>
         /\ summary_text = ai_response
         /\ \/ ai_response \notin JsonTexts
            \/ ai_response \in {dumps(v) : v \in Scalars \cup ListTrees}

\* the response {"summary": "high"} was normalized to 0.0 and to the
\* rendering {'summary': 'high'}, which is not the response
C16_Witness ==
  /\ pc = "add"
  /\ ai_response = <<LBrace, StrTok("summary"), Colon, StrTok("high"), RBrace>>
  /\ score = [py |-> "float", x10 |-> 0]
  /\ summary_text = <<LBrace, PyStrTok("summary"), Colon, PyStrTok("high"), RBrace>>

\* the JSON texts of the values that are no object, each with the rendering
\* of the value
NonObjectTexts ==
  {[text |-> dumps(v), rendered |-> str(v)] : v \in Scalars \cup ListTrees}

\* C17: a response that is the JSON text of a list, a number, a string, a
\* boolean or null is normalized on the fallback branch: summary_text is the
\* response itself, not the rendering of the parsed value where the two
\* differ, and the score is 50.0
C17_NonObjectFallsBack ==
  Normalized =>
    \A value \in NonObjectTexts :
      ai_response = value.text =>
        /\ summary_text = ai_response
        /\ value.rendered # value.text => summary_text # value.rendered
        /\ score = [py |-> "float", x10 |-> 500]

\* the response null was normalized to itself, not to None, and to 50.0
C17_Witness ==
  /\ pc = "add"
  /\ ai_response = <<LitTok("null")>>
  /\ json_loads(ai_response).ok
  /\ summary_text = <<LitTok("null")>>
  /\ str(json_loads(ai_response).val) = <<LitTok("None")>>
  /\ score = [py |-> "float", x10 |-> 500]

====
